---- MODULE Spec2Model ----
(***************************************************************************)
(* gcpp::gpage (src/gpage.h): one contiguous arena of total_size bytes,    *)
(* handed out in min_alloc-sized locations, with two bitmaps (inuse,       *)
(* starts) and a cached request bound.                                      *)
(*                                                                          *)
(* Pointers are byte addresses; &storage[0] is the address `storage`, and   *)
(* nullptr is address 0.  std::size_t arithmetic is modulo SizeMod.         *)
(***************************************************************************)
EXTENDS Integers, Sequences, FiniteSets, TLC

VARIABLES
    total_size,                     \* const std::size_t total_size
    min_alloc,                      \* const std::size_t min_alloc
    inuse,                          \* std::vector<bool> inuse
    starts,                         \* std::vector<bool> starts
    current_known_request_bound,    \* std::size_t current_known_request_bound
    live,                           \* history: the allocations handed out and not yet returned
    recorded,                       \* history: the lowest bound a failed scan has recorded since the last deallocate ({} when none)
    last,                           \* history: the last call, its arguments and its result
    step                            \* history: the number of calls a scripted scenario has made (0 outside the scenarios)

vars == <<total_size, min_alloc, inuse, starts, current_known_request_bound,
          live, recorded, last, step>>

----------------------------------------------------------------------------
(* Bounds of the model *)

\* largest total_size_ given to the constructor
MaxTotalSize == 5
\* largest min_alloc_ given to the constructor
MaxMinAlloc == 2
\* alignof(T) ranges over 2^0 .. 2^MaxAlignLog
MaxAlignLog == 1
\* largest sizeof(T)
MaxElemSize == 2
\* largest num given to allocate
MaxNum == 2
\* number of bits of std::size_t in the model, for the pages up to MaxTotalSize
SizeBits == 4
\* number of bits of std::size_t in the model, for the pages of the scenarios
ScenarioSizeBits == 12
\* largest sizeof(T) in the scenarios
ScenarioMaxElemSize == 8
\* alignof(T) ranges over 2^0 .. 2^ScenarioMaxAlignLog in the scenarios
ScenarioMaxAlignLog == 2

----------------------------------------------------------------------------
(* Machine arithmetic and addresses *)

\* a page whose sizes fit the narrow word with a bit to spare is given the
\* narrow word, any larger page the wide one
SizeMod == 2 ^ (IF total_size < 2 ^ (SizeBits - 1) THEN SizeBits ELSE ScenarioSizeBits)

\* std::size_t subtraction
SizeSub(a, b) == (a - b + SizeMod) % SizeMod

\* std::size_t addition
SizeAdd(a, b) == (a + b) % SizeMod

\* std::size_t multiplication
SizeMul(a, b) == (a * b) % SizeMod

Min(a, b) == IF a < b THEN a ELSE b

Max(a, b) == IF a > b THEN a ELSE b

\* the alignment operator new[] gives the byte array
DefaultNewAlignment == 16

\* &storage[0]
storage == DefaultNewAlignment

nullptr == 0

\* the types T: sizeof(T) is a positive multiple of alignof(T), a power of two
Aligns == {2 ^ k : k \in 0..MaxAlignLog}

Types == {t \in [size : 1..MaxElemSize, align : Aligns] : t.size % t.align = 0}

\* the pointers given to contains: from below the storage to past its end
Pointers == (storage - 1)..(storage + total_size)

----------------------------------------------------------------------------
(* gpage *)

locations == total_size \div min_alloc

\* RoundedTotalSize adding a whole min_alloc to a total_size that is a multiple already
RoundedTotalSizeAlways(total_size_, min_alloc_) ==
    total_size_ + (min_alloc_ - (total_size_ % min_alloc_))

\* gpage::gpage: total_size rounded up to a multiple of min_alloc
RoundedTotalSize(total_size_, min_alloc_) ==
    total_size_ + (IF total_size_ % min_alloc_ > 0
                   THEN min_alloc_ - (total_size_ % min_alloc_)
                   ELSE 0)

\* gpage::gpage(total_size_, min_alloc_)
gpage(total_size_, min_alloc_) ==
    /\ total_size = RoundedTotalSize(total_size_, min_alloc_)
    /\ min_alloc = min_alloc_
    /\ inuse = [i \in 0..(RoundedTotalSize(total_size_, min_alloc_) - 1) |-> FALSE]
    /\ starts = [i \in 0..(RoundedTotalSize(total_size_, min_alloc_) - 1) |-> FALSE]
    /\ current_known_request_bound = RoundedTotalSize(total_size_, min_alloc_)
    /\ live = {}
    /\ recorded = {}
    /\ last = [op |-> "gpage", total_size_ |-> total_size_, min_alloc_ |-> min_alloc_]
    /\ step = 0

Init ==
    \E total_size_ \in 1..MaxTotalSize, min_alloc_ \in 1..MaxMinAlloc :
        gpage(total_size_, min_alloc_)

\* std::align(alignment, size, ptr, space): the aligned address, or nullptr
\* when size bytes do not fit in the space left after aligning
StdAlign(alignment, size, ptr, space) ==
    LET aligned == ((ptr + alignment - 1) \div alignment) * alignment
    IN  IF space < size \/ aligned - ptr > space - size THEN nullptr ELSE aligned

\* alignment of location needed by a T
LocationsStep(T) == 1 + (T.align - 1) \div min_alloc

\* LocationsNeeded rounding the bytes down to whole locations
LocationsNeededFloor(bytes_needed, num) ==
    bytes_needed \div min_alloc + (IF num > 1 THEN 1 ELSE 0)

\* LocationsNeeded without the extra location of an array
LocationsNeededNoExtra(bytes_needed, num) ==
    1 + SizeSub(bytes_needed, 1) \div min_alloc

\* # contiguous locations needed total
LocationsNeeded(bytes_needed, num) ==
    (1 + SizeSub(bytes_needed, 1) \div min_alloc) + (IF num > 1 THEN 1 ELSE 0)

\* ProbeRun looking at the first location of the run only
ProbeRunFirstOnly(i, j, locations_needed) ==
    IF inuse[i] THEN 0 ELSE locations_needed

\* the inner loop: the first j < locations_needed with inuse[i + j], or
\* locations_needed when there is none
RECURSIVE ProbeRun(_, _, _)
ProbeRun(i, j, locations_needed) ==
    IF j < locations_needed
    THEN IF inuse[i + j] THEN j ELSE ProbeRun(i, j + 1, locations_needed)
    ELSE j

\* the outer loop: the value of i when the loop is left
RECURSIVE ScanLocations(_, _, _, _)
ScanLocations(i, end, locations_step, locations_needed) ==
    IF i < end
    THEN LET j == ProbeRun(i, 0, locations_needed)
         IN  IF j = locations_needed
             THEN i
             ELSE ScanLocations(i + j + locations_step, end, locations_step, locations_needed)
    ELSE i

\* the bound after a successful allocation
BoundAfterAllocate(bound, locations_needed) ==
    SizeSub(bound, SizeMul(min_alloc, locations_needed))

\* the bound after a failed scan
BoundAfterFailure(bound, bytes_needed) ==
    Min(bound, SizeSub(bytes_needed, 1))

\* starts after a successful allocation at i
MarkStart(i) == [starts EXCEPT ![i] = TRUE]

\* FillInUse leaving the first location of the run unmarked
FillInUseTail(i, locations_needed) ==
    [k \in DOMAIN inuse |-> IF i < k /\ k < i + locations_needed THEN TRUE ELSE inuse[k]]

\* inuse after a successful allocation at i
FillInUse(i, locations_needed) ==
    [k \in DOMAIN inuse |-> IF i <= k /\ k < i + locations_needed THEN TRUE ELSE inuse[k]]

\* DontEvenScan recording that nothing fits any more
DontEvenScanClearingBound(call) ==
    /\ last' = call @@ [ret |-> nullptr, how |-> "bound"]
    /\ current_known_request_bound' = 0
    /\ UNCHANGED <<total_size, min_alloc, inuse, starts, live, recorded>>

\* the return of allocate for a request above the bound
DontEvenScan(call) ==
    /\ last' = call @@ [ret |-> nullptr, how |-> "bound"]
    /\ UNCHANGED <<total_size, min_alloc, inuse, starts,
                   current_known_request_bound, live, recorded>>

\* T* gpage::allocate<T>(num)
allocate(T, num) ==
    LET bytes_needed     == SizeMul(T.size, num)
        aligned_start    == StdAlign(T.align, bytes_needed, storage, total_size)
        locations_step   == LocationsStep(T)
        locations_needed == LocationsNeeded(bytes_needed, num)
        end              == SizeAdd(SizeSub(locations, locations_needed), 1)
        first            == (aligned_start - storage) \div min_alloc
        i                == ScanLocations(first, end, locations_step, locations_needed)
        call             == [op |-> "allocate", T |-> T, num |-> num,
                             bytes_needed |-> bytes_needed,
                             locations_needed |-> locations_needed]
    IN  IF bytes_needed > current_known_request_bound
        THEN \* we know we don't have room: don't even scan
             DontEvenScan(call)
        ELSE IF aligned_start = nullptr
        THEN \* page can't have enough space for this #bytes, after alignment
             /\ last' = call @@ [ret |-> nullptr, how |-> "align"]
             /\ UNCHANGED <<total_size, min_alloc, inuse, starts,
                            current_known_request_bound, live, recorded>>
        ELSE IF i >= end
        THEN \* we didn't find anything
             /\ current_known_request_bound' =
                    BoundAfterFailure(current_known_request_bound, bytes_needed)
             /\ recorded' = {b \in recorded \cup {current_known_request_bound'} :
                                \A c \in recorded \cup {current_known_request_bound'} : b <= c}
             /\ last' = call @@ [ret |-> nullptr, how |-> "scan"]
             /\ UNCHANGED <<total_size, min_alloc, inuse, starts, live>>
        ELSE \* allocate it
             /\ starts' = MarkStart(i)
             /\ inuse' = FillInUse(i, locations_needed)
             /\ current_known_request_bound' =
                    BoundAfterAllocate(current_known_request_bound, locations_needed)
             /\ live' = live \cup {[start |-> i, locations_needed |-> locations_needed,
                                    T |-> T, num |-> num]}
             /\ last' = call @@ [ret |-> storage + i * min_alloc, how |-> "found", i |-> i]
             /\ UNCHANGED <<total_size, min_alloc, recorded>>

Allocate ==
    /\ \E T \in Types, num \in 1..MaxNum : allocate(T, num)
    /\ UNCHANGED step

\* enum gpage_find_result
not_in_range == 0
in_range_unallocated == 1
in_range_allocated_middle == 2
in_range_allocated_start == 3

\* the backward scan of contains: the value of start when the loop is left
RECURSIVE ScanBack(_)
ScanBack(start) ==
    IF start > 0 /\ ~starts[start - 1] THEN ScanBack(start - 1) ELSE start

\* the range test of contains on the byte pointer pp
InStorage(pp) == storage <= pp /\ pp < storage + (total_size - 1)

\* contains_ret gpage::contains<T>(p)
contains(p) ==
    LET pp    == p
        where == (pp - storage) \div min_alloc
    IN  IF ~InStorage(pp)
        THEN [found |-> not_in_range, location |-> 0, start_location |-> 0]
        ELSE IF ~inuse[where]
        THEN [found |-> in_range_unallocated, location |-> where, start_location |-> 0]
        ELSE IF ~starts[where]
        THEN [found |-> in_range_allocated_middle, location |-> where,
              start_location |-> SizeSub(ScanBack(where), 1)]
        ELSE [found |-> in_range_allocated_start, location |-> where,
              start_location |-> where]

Contains ==
    \E p \in Pointers :
        /\ last' = [op |-> "contains", p |-> p, ret |-> contains(p)]
        /\ UNCHANGED <<total_size, min_alloc, inuse, starts,
                       current_known_request_bound, live, recorded, step>>

\* starts after deallocate has erased the record of the start at here
ResetStart(here) == [starts EXCEPT ![here] = FALSE]

\* NextStart finding no following allocation
NextStartEnd(st, next_start) == locations

\* the forward scan of deallocate over the starts it is given: the start of
\* the following allocation, or locations when there is none
RECURSIVE NextStart(_, _)
NextStart(st, next_start) ==
    IF next_start < locations /\ ~st[next_start]
    THEN NextStart(st, next_start + 1)
    ELSE next_start

\* BoundAfterDeallocate counting one location less than the gap
BoundAfterDeallocateShort(bound, here, next_start) ==
    Max(bound, SizeMul(SizeSub(SizeSub(next_start, here), 1), min_alloc))

\* the bound after a deallocation that leaves next_start - here locations unallocated
BoundAfterDeallocate(bound, here, next_start) ==
    Max(bound, SizeMul(SizeSub(next_start, here), min_alloc))

\* EndOfAllocation flipping one location only
EndOfAllocationOne(here, next_start) ==
    IF here < next_start /\ inuse[here] THEN here + 1 ELSE here

\* the last loop of deallocate: one past the last location it flips
RECURSIVE EndOfAllocation(_, _)
EndOfAllocation(here, next_start) ==
    IF here < next_start /\ inuse[here]
    THEN EndOfAllocation(here + 1, next_start)
    ELSE here

\* inuse after the last loop of deallocate
ClearInUse(here, next_start) ==
    LET stop == EndOfAllocation(here, next_start)
    IN  [k \in DOMAIN inuse |-> IF here <= k /\ k < stop THEN FALSE ELSE inuse[k]]

\* void gpage::deallocate<T>(p)
deallocate(p) ==
    LET here       == (p - storage) \div min_alloc
        next_start == NextStart(ResetStart(here), here + 1)
        call       == [op |-> "deallocate", p |-> p]
    IN  IF p = nullptr
        THEN /\ last' = call
             /\ UNCHANGED <<total_size, min_alloc, inuse, starts,
                            current_known_request_bound, live, recorded>>
        ELSE \* p had better point to our storage and to the start of an allocation
             /\ 0 <= here /\ here < locations
             /\ starts[here]
             /\ inuse[here]
             /\ starts' = ResetStart(here)
             /\ current_known_request_bound' =
                    BoundAfterDeallocate(current_known_request_bound, here, next_start)
             /\ inuse' = ClearInUse(here, next_start)
             /\ live' = {a \in live : a.start # here}
             /\ recorded' = {}
             /\ last' = call @@ [here |-> here, next_start |-> next_start,
                                 freed |-> {a \in live : a.start = here}]
             /\ UNCHANGED <<total_size, min_alloc>>

\* deallocate is given nullptr or a pointer that allocate returned and that
\* has not been deallocated since
Deallocate ==
    /\ \E p \in {nullptr} \cup {storage + a.start * min_alloc : a \in live} : deallocate(p)
    /\ UNCHANGED step

Next == Allocate \/ Deallocate \/ Contains

Spec == Init /\ [][Next]_vars

\* A fresh page, then successful allocations only, then deallocations only
DrainAllocate ==
    /\ last.op \in {"gpage", "allocate"}
    /\ Allocate
    /\ last'.ret # nullptr

DrainDeallocate ==
    /\ \E p \in {storage + a.start * min_alloc : a \in live} : deallocate(p)
    /\ UNCHANGED step

DrainNext == DrainAllocate \/ DrainDeallocate

DrainSpec == Init /\ [][DrainNext]_vars

\* the types T of the scenarios
ScenarioTypes ==
    {t \in [size : 1..ScenarioMaxElemSize, align : {2 ^ k : k \in 0..ScenarioMaxAlignLog}] :
        t.size % t.align = 0}

\* The scenario on a page of 16 bytes in locations of 4: two objects of 5
\* bytes, then one of 1 byte, then any further calls; a deallocate of a live
\* pointer ends the part in which no allocation can succeed, and one more
\* allocation follows it.
Init13 == gpage(16, 4)

S13_First ==
    /\ step = 0
    /\ allocate([size |-> 5, align |-> 1], 1)
    /\ step' = 1

S13_Second ==
    /\ step = 1
    /\ allocate([size |-> 5, align |-> 1], 1)
    /\ step' = 2

S13_Third ==
    /\ step = 2
    /\ allocate([size |-> 1, align |-> 1], 1)
    /\ step' = 3

S13_Further ==
    /\ step = 3
    /\ \/ \E T \in ScenarioTypes, num \in 1..MaxNum : allocate(T, num)
       \/ deallocate(nullptr)
    /\ UNCHANGED step

S13_Query ==
    /\ step = 3 \/ (step = 4 /\ last.op = "deallocate")
    /\ Contains

S13_Release ==
    /\ step = 3
    /\ \E a \in live : deallocate(storage + a.start * min_alloc)
    /\ step' = 4

S13_After ==
    /\ step = 4
    /\ last.op = "deallocate"
    /\ \E T \in ScenarioTypes, num \in 1..MaxNum : allocate(T, num)
    /\ UNCHANGED step

Next13 ==
    \/ S13_First \/ S13_Second \/ S13_Third
    \/ S13_Further \/ S13_Query \/ S13_Release \/ S13_After

Spec13 == Init13 /\ [][Next13]_vars

\* The scenario on a page of 1024 bytes in locations of 4: one object of 8
\* bytes, an array of 10 objects of 4 bytes, the deallocation of the first
\* pointer, then one query.
Init14 == gpage(1024, 4)

S14_First ==
    /\ step = 0
    /\ allocate([size |-> 8, align |-> 4], 1)
    /\ step' = 1

S14_Array ==
    /\ step = 1
    /\ allocate([size |-> 4, align |-> 4], 10)
    /\ step' = 2

S14_Release ==
    /\ step = 2
    /\ \E a \in live : a.num = 1 /\ deallocate(storage + a.start * min_alloc)
    /\ step' = 3

S14_Query ==
    /\ step = 3
    /\ last.op = "deallocate"
    /\ Contains

Next14 == S14_First \/ S14_Array \/ S14_Release \/ S14_Query

Spec14 == Init14 /\ [][Next14]_vars

----------------------------------------------------------------------------
(* Vocabulary of the properties *)

\* the last call was an allocate that returned storage
Succeeded == last.op = "allocate" /\ last.ret # nullptr

\* the last call was an allocate that returned nullptr
Failed == last.op = "allocate" /\ last.ret = nullptr

\* the location a pointer into the storage lies in
LocationOf(p) == (p - storage) \div min_alloc

\* the locations of a live allocation
Range(a) == a.start..(a.start + a.locations_needed - 1)

\* locations_needed free locations start at the candidate location s
FreeRunAt(s, locations_needed) ==
    /\ s + locations_needed <= locations
    /\ \A k \in 0..(locations_needed - 1) : ~inuse[s + k]

\* some alignment-eligible candidate location starts a free run for num objects of type T
EligibleRunExists(T, num) ==
    \E s \in 0..(locations - 1) :
        /\ s % LocationsStep(T) = 0
        /\ FreeRunAt(s, (T.size * num + min_alloc - 1) \div min_alloc + (IF num > 1 THEN 1 ELSE 0))

\* a..b is a maximal contiguous run of locations in use
MaximalRun(a, b) ==
    /\ a <= b
    /\ \A k \in a..b : inuse[k]
    /\ a = 0 \/ ~inuse[a - 1]
    /\ b = locations - 1 \/ ~inuse[b + 1]

Runs == {r \in (0..(locations - 1)) \X (0..(locations - 1)) : MaximalRun(r[1], r[2])}

----------------------------------------------------------------------------
(* Properties *)

\* C1: an allocate that returns nullptr found the page without any
\* alignment-eligible start location followed by locations_needed free
\* locations; whenever such a run exists, allocate succeeds.
C1_FailsOnlyWithoutRun ==
    Failed => ~EligibleRunExists(last.T, last.num)

\* C2: the byte offset of every pointer a successful allocate returns, taken
\* from the (aligned) start of the storage, is a multiple of alignof(T).
C2_ReturnedPointerAligned ==
    Succeeded => ((last.ret - storage) % last.T.align = 0 /\ storage % last.T.align = 0)

\* C3: the location ranges of any two distinct live allocations are disjoint.
C3_LiveRangesDisjoint ==
    \A a, b \in live : a # b => Range(a) \cap Range(b) = {}

\* C3 witness: two live allocations lie side by side
C3_TwoAdjacentLive ==
    \E a, b \in live : a.start + a.locations_needed = b.start

\* C4: right after a successful allocate returns p, contains(p) is
\* in_range_allocated_start with location and start_location both p's location.
C4_ContainsReturnedPointer ==
    Succeeded =>
        contains(last.ret) = [found |-> in_range_allocated_start,
                              location |-> LocationOf(last.ret),
                              start_location |-> LocationOf(last.ret)]

\* C5: right after a successful allocate of size bytes returns p, for every
\* 0 < k < size, contains(p + k) is in_range_allocated_middle with
\* start_location p's location.
C5_ContainsInteriorBytes ==
    Succeeded =>
        \A k \in 1..(last.bytes_needed - 1) :
            /\ contains(last.ret + k).found = in_range_allocated_middle
            /\ contains(last.ret + k).start_location = LocationOf(last.ret)

\* C6: contains(p) is not_in_range exactly when p lies outside
\* [storage, storage + total_size).
C6_NotInRangeIffOutside ==
    last.op = "contains" =>
        (last.ret.found = not_in_range
            <=> ~(storage <= last.p /\ last.p < storage + total_size))

\* C7: from a fresh page, after successful allocations followed by the
\* deallocation of every live allocation, in any order, inuse and starts are
\* all false and the bound is total_size again.
C7_FullDrain ==
    (last.op = "deallocate" /\ live = {}) =>
        /\ \A k \in DOMAIN inuse : ~inuse[k] /\ ~starts[k]
        /\ current_known_request_bound = total_size

\* C8: once a failed allocate has recorded a bound, no allocate of more bytes
\* than that bound succeeds before the next deallocate.
C8_NoSuccessAboveRecordedBound ==
    Succeeded => \A b \in recorded : last.bytes_needed <= b

\* C9: starts[i] implies inuse[i] for every location i.
C9_StartsImpliesInUse ==
    \A i \in DOMAIN starts : starts[i] => inuse[i]

\* C9 witness: a deallocate has released one allocation and left another
C9_DeallocatedBesideLive ==
    /\ last.op = "deallocate"
    /\ last.p # nullptr
    /\ \E i \in DOMAIN starts : starts[i]

\* C10 as stated: each maximal contiguous run of locations in use holds
\* exactly one start, at its first location.
C10_OneStartPerRun ==
    \A r \in Runs :
        /\ starts[r[1]]
        /\ \A k \in (r[1] + 1)..r[2] : ~starts[k]

\* C10 amended: each maximal contiguous run of locations in use begins with a
\* start, and the starts in it are the first locations of the live
\* allocations whose ranges make up the run, one start per allocation.
C10_RunsBeginWithStart ==
    \A r \in Runs :
        /\ starts[r[1]]
        /\ {k \in r[1]..r[2] : starts[k]} = {a.start : a \in {x \in live : x.start \in r[1]..r[2]}}
        /\ \A a \in live : a.start \in r[1]..r[2] => Range(a) \subseteq r[1]..r[2]
        /\ \A k \in r[1]..r[2] : Cardinality({a \in live : k \in Range(a)}) = 1

\* C10 witness: a deallocate has left a run that two adjacent allocations make up
C10_AdjacentAfterDeallocate ==
    /\ last.op = "deallocate"
    /\ last.p # nullptr
    /\ \E r \in Runs : Cardinality({k \in r[1]..r[2] : starts[k]}) >= 2

\* C11: the bound stays within 0..total_size; in particular the subtraction
\* on every successful allocate keeps it there.
C11_BoundWithinTotalSize ==
    0 <= current_known_request_bound /\ current_known_request_bound <= total_size

\* C12: after a successful array allocation (num > 1) returning p, the
\* allocation holds ceil(bytes / min_alloc) + 1 locations and contains of the
\* one-past-the-end address p + sizeof(T) * num is in_range_allocated_middle
\* with start_location p's location.
C12_OnePastTheEndRecognized ==
    (Succeeded /\ last.num > 1) =>
        /\ \E a \in live :
              /\ a.start = LocationOf(last.ret)
              /\ a.locations_needed =
                    (last.T.size * last.num + min_alloc - 1) \div min_alloc + 1
              /\ \A k \in Range(a) : inuse[k]
        /\ contains(last.ret + last.T.size * last.num).found = in_range_allocated_middle
        /\ contains(last.ret + last.T.size * last.num).start_location = LocationOf(last.ret)

\* C13: on the page of 16 bytes in locations of 4, the two allocations of a
\* 5-byte object succeed and together use all 4 locations; the following
\* 1-byte allocation fails, the bound is 0 from then on, and every further
\* allocation fails as long as no live pointer is deallocated.
C13_Scenario16By4 ==
    /\ step = 1 => Succeeded
    /\ step = 2 =>
          /\ Succeeded
          /\ Cardinality(live) = 2
          /\ locations = 4
          /\ \A k \in 0..(locations - 1) : inuse[k]
    /\ step = 3 =>
          /\ current_known_request_bound = 0
          /\ last.op = "allocate" => last.ret = nullptr

\* C13 witness: a further allocation, of an array, has been tried after the third
C13_FurtherAllocationTried ==
    /\ step = 3
    /\ last.op = "allocate"
    /\ last.num = 2

\* C14: on the page of 1024 bytes in locations of 4, the 8-byte object is
\* placed at location 0, the array of 10 4-byte objects at location 2 in 11
\* locations; after the first pointer is deallocated, contains of its former
\* address is in_range_unallocated and the 11 locations of the array are
\* still in use.
C14_Scenario1024By4 ==
    /\ step = 1 => (Succeeded /\ last.ret = storage)
    /\ step = 2 =>
          /\ Succeeded
          /\ LocationOf(last.ret) = 2
          /\ starts[2]
          /\ \A k \in 2..12 : inuse[k]
          /\ ~inuse[13]
    /\ step = 3 =>
          /\ contains(storage).found = in_range_unallocated
          /\ \A k \in 2..12 : inuse[k]
          /\ starts[2]

\* C14 witness: contains has been asked about the former address of the first object
C14_FormerAddressQueried ==
    /\ step = 3
    /\ last.op = "contains"
    /\ last.p = storage

InUseBefore ==
    [k \in DOMAIN inuse |->
        IF k \in last.i..(last.i + last.locations_needed - 1) THEN FALSE ELSE inuse[k]]

\* C16: a successful allocate returns the lowest alignment-eligible candidate
\* location (a multiple of locations_step) that starts a free run of
\* locations_needed locations; the skip-ahead passes over no lower one.
C16_FirstFit ==
    Succeeded =>
        /\ last.i % LocationsStep(last.T) = 0
        /\ \A s \in 0..(last.i - 1) :
            s % LocationsStep(last.T) = 0 =>
                ~(/\ s + last.locations_needed <= locations
                  /\ \A k \in 0..(last.locations_needed - 1) : ~InUseBefore[s + k])

\* C17: when deallocate(p) has released an allocation obtained by
\* allocate<T>(num), an immediately following allocate<T>(num) with the same
\* element size, alignment and num succeeds.
C17_FreedSpaceReusable ==
    [][(/\ last.op = "deallocate"
        /\ last.p # nullptr
        /\ last'.op = "allocate"
        /\ \E a \in last.freed : last'.T = a.T /\ last'.num = a.num)
       => last'.ret # nullptr]_vars

\* the lowest location above here that starts an allocation, or locations when there is none
FollowingStart(here) ==
    LET above == {k \in (here + 1)..(locations - 1) : starts[k]}
    IN  IF above = {} THEN locations
        ELSE CHOOSE k \in above : \A m \in above : k <= m

\* C18: after deallocate(p) of the allocation that started at location here,
\* the bound is at least (next_start - here) * min_alloc, next_start being the
\* lowest location above here with starts set, or locations() when there is
\* none: the bound covers the freed allocation and the free gap behind it.
C18_BoundCoversFreedGap ==
    (last.op = "deallocate" /\ last.p # nullptr) =>
        current_known_request_bound >= (FollowingStart(last.here) - last.here) * min_alloc

\* C18 witness: a deallocate of an allocation that had free locations behind
\* it and another allocation behind those has raised the bound to the whole gap
C18_MiddleWithGapDeallocated ==
    /\ last.op = "deallocate"
    /\ last.p # nullptr
    /\ FollowingStart(last.here) < locations
    /\ \E a \in last.freed : a.locations_needed < FollowingStart(last.here) - last.here
    /\ current_known_request_bound = (FollowingStart(last.here) - last.here) * min_alloc

\* C19: deallocate(p) on a live allocation clears starts at p's location and
\* inuse on exactly the locations of that allocation, an array's extra
\* location included, and leaves every other bit of inuse and starts as it
\* was; deallocate(nullptr) changes nothing.
C19_DeallocateFrame ==
    [][last'.op = "deallocate" =>
        IF last'.p = nullptr
        THEN UNCHANGED <<total_size, min_alloc, inuse, starts, current_known_request_bound>>
        ELSE \E a \in live :
                /\ a.start = LocationOf(last'.p)
                /\ starts' = [k \in DOMAIN starts |-> IF k = a.start THEN FALSE ELSE starts[k]]
                /\ inuse' = [k \in DOMAIN inuse |-> IF k \in Range(a) THEN FALSE ELSE inuse[k]]
      ]_vars

\* C19 witness: an array has been deallocated while the allocation right behind it stays live
C19_ArrayBesideLiveDeallocated ==
    /\ last.op = "deallocate"
    /\ last.p # nullptr
    /\ \E a \in last.freed :
        /\ a.num > 1
        /\ \A k \in Range(a) : ~inuse[k]
        /\ \E b \in live : b.start = a.start + a.locations_needed /\ starts[b.start] /\ inuse[b.start]

\* C20: an allocate that fails returns nullptr and leaves inuse and starts
\* unchanged; when the request was above the bound (bytes_needed >
\* current_known_request_bound) the bound is unchanged too, so a failed
\* allocate changes the bound only by lowering it after a scan that it ran.
C20_FailureFrame ==
    [][(last'.op = "allocate" /\ last'.ret = nullptr) =>
        /\ UNCHANGED <<inuse, starts>>
        /\ last'.bytes_needed > current_known_request_bound => UNCHANGED current_known_request_bound
        /\ current_known_request_bound' # current_known_request_bound =>
            /\ last'.bytes_needed <= current_known_request_bound
            /\ current_known_request_bound' < current_known_request_bound
      ]_vars

\* C20 witness: a request above a bound that is not 0 has been rejected
\* while part of the page is in use
C20_RejectedAboveBound ==
    /\ Failed
    /\ last.bytes_needed > current_known_request_bound
    /\ current_known_request_bound > 0
    /\ live # {}

====
